---------------------------- MODULE Spec2Model ----------------------------
(***************************************************************************)
(* NeonAsteroids: the GameEngine component (src/unnamed/part_000), the App *)
(* host that owns the top-level game state and the UIOverlay buttons that  *)
(* drive it (src/components/UIOverlay.tsx).                                *)
(*                                                                         *)
(* Numbers.  Lengths and velocities are fixed-point integers in hundredths *)
(* of a pixel (SCALE), so that THRUST = 0.15 and FRICTION = 0.98 act as in *)
(* the source.  The heading of the ship is counted in steps of             *)
(* ROTATION_SPEED from its initial value -PI/2; Math.cos / Math.sin of a   *)
(* heading are tabulated (COS_TABLE, SIN_TABLE) in thousandths.            *)
(*                                                                         *)
(* Randomness.  Math.random() is an input: every handler that draws picks  *)
(* one of a few streams (a seed) and reads it sequentially; a draw is a    *)
(* percentage 0..99 standing for the value draw/100 in [0,1).              *)
(*                                                                         *)
(* Particles, polygon outlines, ids, colours and the canvas rendering are  *)
(* cosmetic (nothing reads them back) and are left out.                    *)
(***************************************************************************)
EXTENDS Integers, Sequences, FiniteSets, TLC

\* ------------------------------------------------------------ constants
\* fixed-point resolution: hundredths of a pixel (a modelling unit, not a program value)
SCALE == 10 * 10
SHIP_SIZE == 15
THRUST == 15
FRICTION == 98
MAX_SPEED == 6
BULLET_SPEED == 7
ASTEROID_SPEED_BASE == 1
SPREAD_AMMO_COUNT == 50
POWERUP_LIFETIME == 300
ASTEROID_RADIUS_UNIT == 18
SAFE_ZONE == 150
INITIAL_WAVE == 5
WAVE_SCORE_STEP == 800
MASSIVE_SCORE == 5000
INITIAL_INVULNERABLE == 120
RESPAWN_INVULNERABLE == 180
INITIAL_LIVES == 3
MAX_LIVES == 5
LIFE_WAVE_PERIOD == 5
SHIP_FORGIVENESS == 5
BULLET_RADIUS == 2
POWERUP_RADIUS == 15
POWERUP_MARGIN == 20
GAME_OVER_DELAY == 1000
RESPAWN_DELAY == 2000
SPREAD_ANGLE == 25
FRAGMENTS == 2
FRAGMENT_SPEED == 250
FRAGMENT_SPEED_SCALE == 4
SPAWN_SPEED_SCALE == 5

\* The viewport (window.innerWidth x window.innerHeight), in pixels.
VIEW_WIDTH == 300
VIEW_HEIGHT == 300
\* a small window: the side of a square viewport whose corners lie inside the
\* safe zone
SMALL_VIEW == 200

\* ------------------------------------------------------------ bounds
MaxTicks == 2          \* animation frames run in one behaviour
MaxInputs == 2         \* key / timer-interval / button events in one behaviour
MaxRot == 2            \* |heading| in ROTATION_SPEED steps
MaxSpawnTries == 4     \* iterations of the safe-zone do-while that are followed
NumSeeds == 2          \* random streams a handler may draw from

Seeds == 1..NumSeeds

MENU == "MENU"
PLAYING == "PLAYING"
GAME_OVER == "GAME_OVER"
PAUSED == "PAUSED"
AI_INTERACTION == "AI_INTERACTION"
GameState == {MENU, PLAYING, GAME_OVER, PAUSED, AI_INTERACTION}

KeyCodes == {"ArrowLeft", "ArrowRight", "ArrowUp", "Space"}

VARIABLES
  gameState, score, lives, accuracy, ammo,       \* App (useState)
  scoreRef, shotsFiredRef, shotsHitRef,          \* GameEngine refs
  waveCountRef, spreadAmmoRef, livesRef,
  shipRef, asteroidsRef, bulletsRef, powerupsRef,
  keys,                                          \* the codes recorded as held
  width, height,                                 \* canvas.width, canvas.height
  frames,                                        \* pending requestAnimationFrame callbacks
  intervals,                                     \* live setInterval spawners
  timeouts,                                      \* pending setTimeout callbacks
  thrustSound,                                   \* last audioService.setThrust argument
  ticks, inputs,                                 \* events taken so far (bounded)
  run,                                           \* fresh games started so far
  ev                                             \* what the last handler did

vars == << gameState, score, lives, accuracy, ammo, scoreRef, shotsFiredRef,
           shotsHitRef, waveCountRef, spreadAmmoRef, livesRef, shipRef,
           asteroidsRef, bulletsRef, powerupsRef, keys, width, height, frames,
           intervals, timeouts, thrustSound, ticks, inputs, run, ev >>

\* ------------------------------------------------------------ arithmetic
Abs(n) == IF n < 0 THEN -n ELSE n

\* JavaScript number -> fixed point: the quotient, rounded toward zero.
Quot(a, b) == IF (a < 0) = (b < 0) THEN Abs(a) \div Abs(b) ELSE -(Abs(a) \div Abs(b))

Px(n) == n * SCALE

\* Math.hypot(dx, dy) < r
HypotLess(dx, dy, r) == r > 0 /\ dx * dx + dy * dy < r * r

\* floor(Math.hypot(dx, dy)) for the speed clamp
Hypot(dx, dy) ==
  LET q == dx * dx + dy * dy
  IN  CHOOSE s \in 0..(Abs(dx) + Abs(dy)) : s * s <= q /\ (s + 1) * (s + 1) > q

\* Math.round((hits / shots) * 100), shots > 0, as IEEE-754 doubles compute
\* it.  The quotient is rounded to 53 bits and so is its product with 100;
\* Math.round then takes floor(x + 0.5).  Where the exact percentage ends in .5
\* the double product can fall just short of the half (23 / 40 * 100 is
\* 57.49999999999999) and Math.round goes down.  HalfShort lists every pair
\* with shots <= 100 and hits <= 3 * shots for which the double result is not
\* the exact one; for all other pairs in that range the two agree.
HalfShort ==
  { << 23, 40 >>, << 41, 40 >>, << 51, 40 >>, << 87, 40 >>, << 97, 40 >>,
    << 46, 80 >>, << 82, 80 >>, << 102, 80 >>, << 174, 80 >>, << 194, 80 >> }

RoundPercent(hits, shots) ==
  LET exact == (200 * hits + shots) \div (2 * shots)
  IN  IF << hits, shots >> \in HalfShort THEN exact - 1 ELSE exact

\* ------------------------------------------------------------ Math.random
RandomStream ==
  << << 95,  0,  0, 50, 50,   50, 99,  0, 80, 20,   20, 50, 50,  0, 99, 30, 70,
         5, 99, 99, 50, 60,   70,  0, 50, 40, 40 >>,
     << 50,  5,  5, 70, 50,    5, 95,  5, 50, 30,   90, 50, 50, 99,  0, 60, 40,
        20,  0, 99, 50, 50,   80, 99, 50, 10, 90 >>,
     << 20, 99, 50, 50, 50,   95, 50,  0, 35, 65,    5, 10, 90, 45, 55,
        50,  0,  0, 75, 25,   90, 50, 50,  0, 99, 50, 50 >> >>

\* the n-th Math.random() of stream seed (n = 0, 1, ...), as a percentage
Rand(seed, n) ==
  LET row == RandomStream[((seed - 1) % Len(RandomStream)) + 1]
  IN  row[(n % Len(row)) + 1]

\* ------------------------------------------------------------ headings
COS_TABLE ==
  [off \in {-SPREAD_ANGLE, 0, SPREAD_ANGLE} |->
     CASE off = -SPREAD_ANGLE -> << -686, -626, -562, -494, -423, -349, -273, -195, -116 >>
       [] off = 0             -> << -315, -238, -159,  -80,    0,   80,  159,  238,  315 >>
       [] OTHER               -> <<  116,  195,  273,  349,  423,  494,  562,  626,  686 >>]

SIN_TABLE ==
  [off \in {-SPREAD_ANGLE, 0, SPREAD_ANGLE} |->
     CASE off = -SPREAD_ANGLE -> << -727, -780, -827, -870, -906, -937, -962, -981, -993 >>
       [] off = 0             -> << -949, -971, -987, -997, -1000, -997, -987, -971, -949 >>
       [] OTHER               -> << -993, -981, -962, -937, -906, -870, -827, -780, -727 >>]

\* 1000 * Math.cos(-PI/2 + 0.08 * rot + off degrees), rot in -4..4
Cos(rot, off) == COS_TABLE[off][rot + 5]
Sin(rot, off) == SIN_TABLE[off][rot + 5]

\* ------------------------------------------------------------ spawning
AsteroidRadius(sizeClass) == sizeClass * Px(ASTEROID_RADIUS_UNIT)

\* lines 74-77: the weighted size draw
SizeClassFor(currentScore, rand) ==
  IF currentScore > MASSIVE_SCORE /\ rand < 10 THEN 4
  ELSE IF rand < 25 THEN 3
  ELSE IF rand < 60 THEN 2
  ELSE 1

\* line 85: the candidate is rejected while inside the safe zone
InSafeZone(x, y, w, h) == HypotLess(x - w \div 2, y - h \div 2, Px(SAFE_ZONE))

\* lines 82-85: the number of the first attempt (0, 1, ...) that leaves the
\* safe zone, reading the stream from position p; MaxSpawnTries when none of
\* the attempts followed does.
RECURSIVE SafeAttempt(_, _, _, _, _)
SafeAttempt(seed, p, w, h, t) ==
  IF t >= MaxSpawnTries THEN MaxSpawnTries
  ELSE IF InSafeZone(Quot(Rand(seed, p + 2 * t) * w, 100),
                     Quot(Rand(seed, p + 2 * t + 1) * h, 100), w, h)
       THEN SafeAttempt(seed, p, w, h, t + 1)
       ELSE t

\* lines 82-85: some candidate the loop can draw lies outside the safe zone;
\* when none does, the do-while never ends.  Math.random() is in [0, 1), so
\* x ranges over [0, w) and y over [0, h); the candidates farthest from the
\* centre are the corners, and the draws at 0 and 99 percent reach them.
SafeSpotExists(w, h) ==
  \E rx \in {0, 50, 99}, ry \in {0, 50, 99} :
    ~InSafeZone(Quot(rx * w, 100), Quot(ry * h, 100), w, h)

NewAsteroid(x, y, vx, vy, sizeClass) ==
  [x |-> x, y |-> y, vx |-> vx, vy |-> vy,
   sizeClass |-> sizeClass, radius |-> AsteroidRadius(sizeClass)]

\* lines 65-113.  The result is [asteroids, p, ok]: the collection with the
\* new asteroids appended, the stream position, and whether every safe-zone
\* loop ended within the attempts followed.
RECURSIVE spawnAsteroids(_, _, _, _, _, _, _)
spawnAsteroids(count, w, h, currentScore, asteroids, seed, p) ==
  IF count <= 0 THEN [asteroids |-> asteroids, p |-> p, ok |-> TRUE]
  ELSE
    LET sizeClass == SizeClassFor(currentScore, Rand(seed, p))
        t  == SafeAttempt(seed, p + 1, w, h, 0)
        q  == p + 1 + 2 * t
        x  == Quot(Rand(seed, q) * w, 100)
        y  == Quot(Rand(seed, q + 1) * h, 100)
        vx == Quot((Rand(seed, q + 2) - 50) * ASTEROID_SPEED_BASE * SPAWN_SPEED_SCALE, sizeClass)
        vy == Quot((Rand(seed, q + 3) - 50) * ASTEROID_SPEED_BASE * SPAWN_SPEED_SCALE, sizeClass)
    IN  IF t >= MaxSpawnTries
        THEN [asteroids |-> asteroids, p |-> p, ok |-> FALSE]
        ELSE spawnAsteroids(count - 1, w, h, currentScore,
                            Append(asteroids, NewAsteroid(x, y, vx, vy, sizeClass)),
                            seed, q + 4)

\* lines 115-130
spawnPowerup(kind, w, h, powerups, seed, p) ==
  Append(powerups,
         [x |-> Quot(Rand(seed, p) * (w - Px(2 * POWERUP_MARGIN)), 100) + Px(POWERUP_MARGIN),
          y |-> Quot(Rand(seed, p + 1) * (h - Px(2 * POWERUP_MARGIN)), 100) + Px(POWERUP_MARGIN),
          radius |-> Px(POWERUP_RADIUS), kind |-> kind, lifeTime |-> POWERUP_LIFETIME])

resetShip_InPlace(ship, w, h) ==
  [ship EXCEPT !.vx = 0, !.vy = 0, !.rot = 0,
               !.invulnerable = RESPAWN_INVULNERABLE, !.destroyed = FALSE]

\* lines 151-157
resetShip(ship, w, h) ==
  [ship EXCEPT !.x = w \div 2, !.y = h \div 2, !.vx = 0, !.vy = 0, !.rot = 0,
               !.invulnerable = RESPAWN_INVULNERABLE, !.destroyed = FALSE]

handleInput_DeadSteers(ship, held) ==
  LET rot == ship.rot - (IF "ArrowLeft" \in held THEN 1 ELSE 0)
                      + (IF "ArrowRight" \in held THEN 1 ELSE 0)
      up  == "ArrowUp" \in held
  IN  [ship |-> [ship EXCEPT !.rot = rot, !.thrusting = up,
                             !.vx = IF up THEN @ + Quot(Cos(rot, 0) * THRUST, 1000) ELSE @,
                             !.vy = IF up THEN @ + Quot(Sin(rot, 0) * THRUST, 1000) ELSE @],
       thrust |-> up]

\* ------------------------------------------------------------ update logic
\* lines 161-189.  The result is the ship and the argument of setThrust.
handleInput(ship, held) ==
  IF ship.destroyed THEN [ship |-> ship, thrust |-> FALSE]
  ELSE
    LET rot == ship.rot - (IF "ArrowLeft" \in held THEN 1 ELSE 0)
                        + (IF "ArrowRight" \in held THEN 1 ELSE 0)
        up  == "ArrowUp" \in held
        vx  == IF up THEN ship.vx + Quot(Cos(rot, 0) * THRUST, 1000) ELSE ship.vx
        vy  == IF up THEN ship.vy + Quot(Sin(rot, 0) * THRUST, 1000) ELSE ship.vy
        over == vx * vx + vy * vy > Px(MAX_SPEED) * Px(MAX_SPEED)
        speed == Hypot(vx, vy)
    IN  [ship |-> [ship EXCEPT !.rot = rot, !.thrusting = up,
                               !.vx = IF over THEN Quot(vx * Px(MAX_SPEED), speed) ELSE vx,
                               !.vy = IF over THEN Quot(vy * Px(MAX_SPEED), speed) ELSE vy],
         thrust |-> up]

\* lines 201-204 and 225-228: the two ifs of one coordinate, in order
Wrap(c, limit) ==
  LET a == IF c < 0 THEN c + limit ELSE c
  IN  IF a > limit THEN a - limit ELSE a

\* lines 195-207
MoveShip(ship, w, h) ==
  IF ship.destroyed THEN ship
  ELSE [ship EXCEPT !.x = Wrap(ship.x + ship.vx, w),
                    !.y = Wrap(ship.y + ship.vy, h),
                    !.vx = Quot(ship.vx * FRICTION, 100),
                    !.vy = Quot(ship.vy * FRICTION, 100),
                    !.invulnerable = IF ship.invulnerable > 0
                                     THEN ship.invulnerable - 1 ELSE ship.invulnerable]

OutOfBounds_NoTop(b, w, h) == b.x < 0 \/ b.x > w \/ b.y > h

\* line 215
OutOfBounds(b, w, h) == b.x < 0 \/ b.x > w \/ b.y < 0 \/ b.y > h

\* lines 210-219: every bullet moves; the ones out of bounds are spliced out
MoveBullets(bullets, w, h) ==
  LET moved == [i \in 1..Len(bullets) |->
                  [bullets[i] EXCEPT !.x = bullets[i].x + bullets[i].vx,
                                     !.y = bullets[i].y + bullets[i].vy]]
      Keep(b) == ~OutOfBounds(b, w, h)
  IN  SelectSeq(moved, Keep)

\* lines 222-229
MoveAsteroid(a, w, h) ==
  [a EXCEPT !.x = Wrap(a.x + a.vx, w), !.y = Wrap(a.y + a.vy, h)]

MoveAsteroids(asteroids, w, h) ==
  [i \in 1..Len(asteroids) |-> MoveAsteroid(asteroids[i], w, h)]

AgePowerups_Late(powerups) ==
  LET aged == [i \in 1..Len(powerups) |->
                 [powerups[i] EXCEPT !.lifeTime = powerups[i].lifeTime - 1]]
      Alive(q) == ~(q.lifeTime < 0)
  IN  SelectSeq(aged, Alive)

\* lines 232-238: every lifetime ticks down; the expired ones are spliced out
AgePowerups(powerups) ==
  LET aged == [i \in 1..Len(powerups) |->
                 [powerups[i] EXCEPT !.lifeTime = powerups[i].lifeTime - 1]]
      Alive(q) == ~(q.lifeTime <= 0)
  IN  SelectSeq(aged, Alive)

\* Array.prototype.splice(i, 1), 1-based
RemoveAt(s, i) == SubSeq(s, 1, i - 1) \o SubSeq(s, i + 1, Len(s))

\* ------------------------------------------------------------ collisions
\* line 260-262
BulletHits(b, a) == HypotLess(b.x - a.x, b.y - a.y, a.radius)

Points_Penalty(sizeClass) == 0 - 10

Points_Swapped(sizeClass) ==
  IF sizeClass = 4 THEN 20
  ELSE IF sizeClass = 3 THEN 15
  ELSE IF sizeClass = 2 THEN 50
  ELSE 100

\* line 268
Points(sizeClass) ==
  IF sizeClass = 4 THEN 15
  ELSE IF sizeClass = 3 THEN 20
  ELSE IF sizeClass = 2 THEN 50
  ELSE 100

RECURSIVE ScanAsteroids_MissesFirst(_, _, _)
ScanAsteroids_MissesFirst(b, asteroids, j) ==
  IF j < 2 THEN 0
  ELSE IF BulletHits(b, asteroids[j]) THEN j
  ELSE ScanAsteroids_MissesFirst(b, asteroids, j - 1)

\* lines 258-262: scanning from the end, the index of the first asteroid the
\* bullet hits, 0 when it hits none
RECURSIVE ScanAsteroids(_, _, _)
ScanAsteroids(b, asteroids, j) ==
  IF j < 1 THEN 0
  ELSE IF BulletHits(b, asteroids[j]) THEN j
  ELSE ScanAsteroids(b, asteroids, j - 1)

Fragment_ParentRadius(a, seed, p) ==
  [x |-> a.x, y |-> a.y, vx |-> 0, vy |-> 0,
   sizeClass |-> a.sizeClass - 1, radius |-> a.radius]

Fragment_SameSize(a, seed, p) ==
  [x |-> a.x, y |-> a.y, vx |-> 0, vy |-> 0,
   sizeClass |-> a.sizeClass, radius |-> a.radius]

\* lines 287-299: the k-th fragment of asteroid a
Fragment(a, seed, p) ==
  LET newSize == a.sizeClass - 1
  IN  [x |-> a.x, y |-> a.y,
       vx |-> Quot((Rand(seed, p) - 50) * FRAGMENT_SPEED * FRAGMENT_SPEED_SCALE, 100 * newSize),
       vy |-> Quot((Rand(seed, p + 1) - 50) * FRAGMENT_SPEED * FRAGMENT_SPEED_SCALE, 100 * newSize),
       sizeClass |-> newSize, radius |-> newSize * Px(ASTEROID_RADIUS_UNIT)]

\* lines 273-303: the fragments are pushed, then the struck asteroid is spliced
RECURSIVE PushFragments(_, _, _, _, _)
PushFragments(asteroids, a, k, seed, p) ==
  IF k >= FRAGMENTS THEN asteroids
  ELSE PushFragments(Append(asteroids, Fragment(a, seed, p + 2 * k)), a, k + 1, seed, p)

Split(asteroids, j, seed, p) ==
  LET a == asteroids[j]
  IN  RemoveAt(IF a.sizeClass > 1 THEN PushFragments(asteroids, a, 0, seed, p)
               ELSE asteroids, j)

RECURSIVE BulletsVsAsteroids_NoBreak(_, _, _)
BulletsVsAsteroids_NoBreak(c, i, seed) ==
  IF i < 1 THEN c
  ELSE
    LET b == c.bullets[i]
        j == ScanAsteroids(b, c.asteroids, Len(c.asteroids))
    IN  IF j = 0 THEN BulletsVsAsteroids_NoBreak(c, i - 1, seed)
        ELSE
          LET a == c.asteroids[j]
          IN  BulletsVsAsteroids_NoBreak(
                [c EXCEPT !.shotsHit = @ + 1,
                          !.score = @ + Points(a.sizeClass),
                          !.hudScore = c.score + Points(a.sizeClass),
                          !.asteroids = Split(c.asteroids, j, seed, c.p),
                          !.p = IF a.sizeClass > 1 THEN @ + 2 * FRAGMENTS ELSE @,
                          !.hits = Append(@, [sizeClass |-> a.sizeClass, x |-> a.x, y |-> a.y,
                                              before |-> c.score])],
                i, seed)

\* lines 254-311: the bullets from the last to the first.  c carries the
\* collections, the counters, the stream position and the log of hits.
RECURSIVE BulletsVsAsteroids(_, _, _)
BulletsVsAsteroids(c, i, seed) ==
  IF i < 1 THEN c
  ELSE
    LET b == c.bullets[i]
        j == ScanAsteroids(b, c.asteroids, Len(c.asteroids))
    IN  IF j = 0 THEN BulletsVsAsteroids(c, i - 1, seed)
        ELSE
          LET a == c.asteroids[j]
          IN  BulletsVsAsteroids(
                [c EXCEPT !.shotsHit = @ + 1,
                          !.score = @ + Points(a.sizeClass),
                          !.hudScore = c.score + Points(a.sizeClass),
                          !.asteroids = Split(c.asteroids, j, seed, c.p),
                          !.p = IF a.sizeClass > 1 THEN @ + 2 * FRAGMENTS ELSE @,
                          !.bullets = RemoveAt(c.bullets, i),
                          !.hits = Append(@, [sizeClass |-> a.sizeClass, x |-> a.x, y |-> a.y,
                                              before |-> c.score])],
                i - 1, seed)

\* line 316-317
ShipHits(ship, a) ==
  HypotLess(ship.x - a.x, ship.y - a.y, a.radius + ship.radius - Px(SHIP_FORGIVENESS))

ShipOverlaps(ship, asteroids) ==
  \E j \in 1..Len(asteroids) : ShipHits(ship, asteroids[j])

\* lines 328-337: the callback handed to setTimeout once the life is taken,
\* with its delay in milliseconds; livesLeft is livesRef after the decrement
Deferred(livesLeft, r) ==
  IF livesLeft <= 0
  THEN [kind |-> "gameOver", run |-> r, delay |-> GAME_OVER_DELAY]
  ELSE [kind |-> "respawn", run |-> r, delay |-> RESPAWN_DELAY]

ShipVsAsteroids_NoShield(c) ==
  IF ~c.ship.destroyed /\ ShipOverlaps(c.ship, c.asteroids)
  THEN [c EXCEPT !.ship.destroyed = TRUE, !.lives = @ - 1, !.hudLives = c.lives - 1,
                 !.spreadAmmo = 0, !.hudAmmo = 0,
                 !.timeouts = Append(@, Deferred(c.lives - 1, c.run)),
                 !.died = TRUE]
  ELSE c

ShipVsAsteroids_HitsWreck(c) ==
  IF c.ship.invulnerable <= 0 /\ ShipOverlaps(c.ship, c.asteroids)
  THEN [c EXCEPT !.ship.destroyed = TRUE, !.lives = @ - 1, !.hudLives = c.lives - 1,
                 !.spreadAmmo = 0, !.hudAmmo = 0,
                 !.timeouts = Append(@, Deferred(c.lives - 1, c.run)),
                 !.died = TRUE]
  ELSE c

ShipVsAsteroids_BothCallbacks(c) ==
  IF ~c.ship.destroyed /\ c.ship.invulnerable <= 0 /\ ShipOverlaps(c.ship, c.asteroids)
  THEN [c EXCEPT !.ship.destroyed = TRUE, !.lives = @ - 1, !.hudLives = c.lives - 1,
                 !.spreadAmmo = 0, !.hudAmmo = 0,
                 !.timeouts = IF c.lives - 1 <= 0
                              THEN Append(Append(@, Deferred(0, c.run)), Deferred(1, c.run))
                              ELSE Append(@, Deferred(c.lives - 1, c.run)),
                 !.died = TRUE]
  ELSE c

ShipVsAsteroids_EachOverlap(c) ==
  LET n == Cardinality({j \in 1..Len(c.asteroids) : ShipHits(c.ship, c.asteroids[j])})
  IN  IF ~c.ship.destroyed /\ c.ship.invulnerable <= 0 /\ n > 0
      THEN [c EXCEPT !.ship.destroyed = TRUE, !.lives = @ - n, !.hudLives = c.lives - n,
                     !.spreadAmmo = 0, !.hudAmmo = 0,
                     !.timeouts = Append(@, Deferred(c.lives - n, c.run)),
                     !.died = TRUE]
      ELSE c

\* lines 314-341
ShipVsAsteroids(c) ==
  IF ~c.ship.destroyed /\ c.ship.invulnerable <= 0 /\ ShipOverlaps(c.ship, c.asteroids)
  THEN [c EXCEPT !.ship.destroyed = TRUE,
                 !.lives = @ - 1,
                 !.hudLives = c.lives - 1,
                 !.spreadAmmo = 0,
                 !.hudAmmo = 0,
                 !.timeouts = Append(@, Deferred(c.lives - 1, c.run)),
                 !.died = TRUE]
  ELSE c

\* line 347-348
ShipTouches(ship, q) == HypotLess(ship.x - q.x, ship.y - q.y, q.radius + ship.radius)

LifePickup_NoCap(n) == n + 1

\* lines 350-354
LifePickup(n) == IF n < MAX_LIVES THEN n + 1 ELSE n

SpreadPickup_Adds(n) == n + SPREAD_AMMO_COUNT

\* lines 355-358
SpreadPickup(n) == SPREAD_AMMO_COUNT

\* lines 345-362: the powerups from the last to the first
RECURSIVE CollectPowerups(_, _)
CollectPowerups(c, i) ==
  IF i < 1 THEN c
  ELSE
    LET q == c.powerups[i]
    IN  IF ~ShipTouches(c.ship, q) THEN CollectPowerups(c, i - 1)
        ELSE CollectPowerups(
               [c EXCEPT !.lives = IF q.kind = "life" THEN LifePickup(@) ELSE @,
                         !.hudLives = IF q.kind = "life" /\ c.lives < MAX_LIVES
                                      THEN LifePickup(c.lives) ELSE @,
                         !.spreadAmmo = IF q.kind = "spread" THEN SpreadPickup(@) ELSE @,
                         !.hudAmmo = IF q.kind = "spread" THEN SPREAD_AMMO_COUNT ELSE @,
                         !.powerups = RemoveAt(@, i),
                         !.picked = Append(@, [kind |-> q.kind, lives |-> c.lives,
                                               ammo |-> c.spreadAmmo])],
               i - 1)

ShipVsPowerups_Always(c) == CollectPowerups(c, Len(c.powerups))

\* lines 343-363
ShipVsPowerups(c) ==
  IF ~c.ship.destroyed THEN CollectPowerups(c, Len(c.powerups)) ELSE c

WaveSize_Flat(currentScore) == INITIAL_WAVE

\* line 370-371
WaveSize(currentScore) == INITIAL_WAVE + currentScore \div WAVE_SCORE_STEP

WaveClear_Skip(c, w, h, seed) == c

\* lines 366-377 (the loop only runs with gameState = PLAYING)
WaveClear(c, w, h, seed) ==
  IF Len(c.asteroids) = 0
  THEN LET wave == c.waveCount + 1
           sp   == spawnAsteroids(WaveSize(c.score), w, h, c.score, c.asteroids, seed, c.p)
       IN  [c EXCEPT !.waveCount = wave,
                     !.asteroids = sp.asteroids,
                     !.ok = sp.ok,
                     !.spawned = Len(sp.asteroids),
                     !.lifeDrop = wave > 0 /\ wave % LIFE_WAVE_PERIOD = 0,
                     !.powerups = IF wave > 0 /\ wave % LIFE_WAVE_PERIOD = 0
                                  THEN spawnPowerup("life", w, h, @, seed, sp.p)
                                  ELSE @]
  ELSE c

checkCollisions_PowerupsFirst(c, w, h, seed) ==
  LET c1 == BulletsVsAsteroids(c, Len(c.bullets), seed)
      c2 == ShipVsPowerups(c1)
      c3 == ShipVsAsteroids([c2 EXCEPT !.overlap = ShipOverlaps(c2.ship, c2.asteroids)])
  IN  WaveClear(c3, w, h, seed)

\* lines 250-378
checkCollisions(c, w, h, seed) ==
  LET c1 == BulletsVsAsteroids(c, Len(c.bullets), seed)
      c2 == ShipVsAsteroids([c1 EXCEPT !.overlap = ShipOverlaps(c1.ship, c1.asteroids)])
      c3 == ShipVsPowerups(c2)
  IN  WaveClear(c3, w, h, seed)

\* ------------------------------------------------------------ the log
\* What the last handler did: the branches it took and the values it read.
NoEvent(op) ==
  [op |-> op, from |-> "none", hits |-> << >>, died |-> FALSE, overlap |-> FALSE,
   invulnerable |-> 0, picked |-> << >>, spawned |-> 0, lifeDrop |-> FALSE,
   fired |-> 0, stale |-> FALSE, reset |-> FALSE, removed |-> 0, key |-> "none"]

\* A handler has entered a loop that cannot end: the page no longer responds,
\* no later callback runs.
Hung == ev.op = "hang"

\* ------------------------------------------------------------ fire
\* lines 560-574: one bullet per angle offset, at the ship's position
NewBullet(ship, off) ==
  [x |-> ship.x, y |-> ship.y,
   vx |-> Quot(Cos(ship.rot, off) * Px(BULLET_SPEED), 1000),
   vy |-> Quot(Sin(ship.rot, off) * Px(BULLET_SPEED), 1000),
   radius |-> Px(BULLET_RADIUS), rot |-> ship.rot, off |-> off]

Angles_Narrow(hasSpread) == IF hasSpread THEN << 0, -SPREAD_ANGLE >> ELSE << 0 >>

\* line 558
Angles(hasSpread) == IF hasSpread THEN << 0, -SPREAD_ANGLE, SPREAD_ANGLE >> ELSE << 0 >>

FireBullets(bullets, ship, hasSpread) ==
  bullets \o [i \in 1..Len(Angles(hasSpread)) |-> NewBullet(ship, Angles(hasSpread)[i])]

\* ------------------------------------------------------------ App
\* lines 280-288 of UIOverlay.tsx: the four resets of handleSetGameState
StartsFresh(newState) == newState = PLAYING /\ gameState # PAUSED

ScheduleLoop_Stacks(newState, n) == IF newState = PLAYING THEN n + 1 ELSE n

ScheduleLoop_NoCancel(newState, n) == IF newState = PLAYING THEN 1 ELSE n

\* lines 618-630: the cleanup cancels the frame requested last; the effect
\* requests one in PLAYING and cancels in every other state.  n is the number
\* of frames pending, the result the number pending afterwards.
ScheduleLoop(newState, n) ==
  LET cancelled == IF n > 0 THEN n - 1 ELSE n
  IN  IF newState = PLAYING THEN cancelled + 1 ELSE cancelled

ScheduleSpawner_NoClear(newState, n) == IF newState = PLAYING THEN 1 ELSE n

\* lines 383-393: the cleanup clears the interval; the effect sets one only in
\* PLAYING.  n is the number of intervals set.
ScheduleSpawner(newState, n) == IF newState = PLAYING THEN 1 ELSE 0

\* lines 599-631 and 383-393: what the effects do when gameState has become
\* newState (React runs them only when the state changed): the cleanups, the
\* run reset, the animation frame and the powerup interval.
Effects(newState, seed) ==
  LET changed == newState # gameState
      reset == changed /\ newState = PLAYING /\ Len(asteroidsRef) = 0
      hang == reset /\ ~SafeSpotExists(width, height)
      fresh == reset /\ ~hang
      sp == spawnAsteroids(INITIAL_WAVE, width, height, scoreRef, asteroidsRef, seed, 0)
  IN  [changed |-> changed,
       fresh |-> fresh,
       hang |-> hang,
       ok |-> ~fresh \/ sp.ok,
       asteroids |-> IF fresh THEN sp.asteroids ELSE asteroidsRef,
       ship |-> IF fresh THEN resetShip(shipRef, width, height) ELSE shipRef,
       waveCount |-> IF fresh THEN 0 ELSE waveCountRef,
       spreadAmmo |-> IF fresh THEN 0 ELSE spreadAmmoRef,
       powerups |-> IF fresh THEN << >> ELSE powerupsRef,
       frames |-> IF ~changed THEN frames
                  ELSE IF hang THEN (IF frames > 0 THEN frames - 1 ELSE frames)
                  ELSE ScheduleLoop(newState, frames),
       intervals |-> IF changed THEN ScheduleSpawner(newState, intervals) ELSE intervals,
       thrust |-> IF changed THEN FALSE ELSE thrustSound]

\* App.handleSetGameState(newState), followed by the effects of the engine.
\* acc is the accuracy set just before by onAccuracyUpdate, or the current one.
handleSetGameState(newState, acc, seed, op) ==
  LET e == Effects(newState, seed)
  IN  /\ e.ok
      /\ gameState' = newState
      /\ score' = IF StartsFresh(newState) THEN 0 ELSE score
      /\ lives' = IF StartsFresh(newState) THEN INITIAL_LIVES ELSE lives
      /\ accuracy' = IF StartsFresh(newState) THEN 0 ELSE acc
      /\ ammo' = IF StartsFresh(newState) \/ e.fresh THEN 0 ELSE ammo
      /\ asteroidsRef' = e.asteroids
      /\ shipRef' = e.ship
      /\ waveCountRef' = e.waveCount
      /\ spreadAmmoRef' = e.spreadAmmo
      /\ powerupsRef' = e.powerups
      /\ frames' = e.frames
      /\ intervals' = e.intervals
      /\ thrustSound' = e.thrust
      /\ run' = IF e.changed /\ StartsFresh(newState) THEN run + 1 ELSE run
      /\ ev' = [NoEvent(IF e.hang THEN "hang" ELSE op) EXCEPT
                                   !.from = gameState, !.reset = e.fresh,
                                   !.spawned = IF e.fresh THEN Len(e.asteroids) ELSE 0]

\* UIOverlay.handleStartGame: the button of the menu screen
StartGame ==
  /\ gameState = MENU
  /\ inputs < MaxInputs
  /\ inputs' = inputs + 1
  /\ \E seed \in Seeds : handleSetGameState(PLAYING, accuracy, seed, "start")
  /\ UNCHANGED << scoreRef, shotsFiredRef, shotsHitRef, livesRef, bulletsRef, keys,
                  width, height, timeouts, ticks >>

\* the REBOOT SYSTEM button of the game-over screen
Reboot ==
  /\ gameState = GAME_OVER
  /\ inputs < MaxInputs
  /\ inputs' = inputs + 1
  /\ handleSetGameState(MENU, accuracy, 1, "reboot")
  /\ UNCHANGED << scoreRef, shotsFiredRef, shotsHitRef, livesRef, bulletsRef, keys,
                  width, height, timeouts, ticks >>

\* ------------------------------------------------------------ the loop
\* lines 534-548: one animation frame
Tick ==
  /\ frames > 0
  /\ ticks < MaxTicks
  /\ ticks' = ticks + 1
  /\ IF gameState # PLAYING
     THEN /\ frames' = frames - 1
          /\ ev' = NoEvent("idle")
          /\ UNCHANGED << gameState, score, lives, accuracy, ammo, scoreRef,
                          shotsFiredRef, shotsHitRef, waveCountRef, spreadAmmoRef,
                          livesRef, shipRef, asteroidsRef, bulletsRef, powerupsRef,
                          keys, width, height, intervals, timeouts, thrustSound, inputs,
                          run >>
     ELSE \E seed \in Seeds :
          LET in == handleInput(shipRef, keys)
              moved == MoveBullets(bulletsRef, width, height)
              c0 == [ship |-> MoveShip(in.ship, width, height),
                     asteroids |-> MoveAsteroids(asteroidsRef, width, height),
                     bullets |-> moved,
                     powerups |-> AgePowerups(powerupsRef),
                     score |-> scoreRef, shotsHit |-> shotsHitRef, lives |-> livesRef,
                     spreadAmmo |-> spreadAmmoRef, waveCount |-> waveCountRef,
                     hudScore |-> score, hudLives |-> lives, hudAmmo |-> ammo,
                     timeouts |-> timeouts, p |-> 0, hits |-> << >>, died |-> FALSE,
                     overlap |-> FALSE, picked |-> << >>, spawned |-> 0,
                     lifeDrop |-> FALSE, ok |-> TRUE, run |-> run]
              c == checkCollisions(c0, width, height, seed)
          IN  /\ Abs(in.ship.rot) <= MaxRot
              /\ c.ok
              /\ shipRef' = c.ship
              /\ asteroidsRef' = c.asteroids
              /\ bulletsRef' = c.bullets
              /\ powerupsRef' = c.powerups
              /\ scoreRef' = c.score
              /\ shotsHitRef' = c.shotsHit
              /\ livesRef' = c.lives
              /\ spreadAmmoRef' = c.spreadAmmo
              /\ waveCountRef' = c.waveCount
              /\ score' = c.hudScore
              /\ lives' = c.hudLives
              /\ ammo' = c.hudAmmo
              /\ timeouts' = c.timeouts
              /\ thrustSound' = in.thrust
              /\ ev' = [NoEvent("tick") EXCEPT
                          !.hits = c.hits, !.died = c.died, !.overlap = c.overlap,
                          !.invulnerable = c0.ship.invulnerable, !.picked = c.picked,
                          !.spawned = c.spawned, !.lifeDrop = c.lifeDrop,
                          !.removed = Len(bulletsRef) - Len(moved)]
              /\ UNCHANGED << gameState, accuracy, shotsFiredRef, keys, width, height,
                              frames, intervals, inputs, run >>

handleKeyDown_AlwaysFires(code) ==
  /\ ~Hung
  /\ inputs < MaxInputs
  /\ inputs' = inputs + 1
  /\ keys' = keys \cup {code}
  /\ IF code = "Space"
     THEN LET hasSpread == spreadAmmoRef > 0
          IN  /\ bulletsRef' = FireBullets(bulletsRef, shipRef, hasSpread)
              /\ spreadAmmoRef' = IF hasSpread THEN spreadAmmoRef - 1 ELSE spreadAmmoRef
              /\ ammo' = IF hasSpread THEN spreadAmmoRef - 1 ELSE ammo
              /\ shotsFiredRef' = shotsFiredRef + 1
              /\ ev' = [NoEvent("keydown") EXCEPT !.key = code,
                          !.fired = Len(Angles(hasSpread))]
     ELSE /\ ev' = [NoEvent("keydown") EXCEPT !.key = code]
          /\ UNCHANGED << bulletsRef, spreadAmmoRef, ammo, shotsFiredRef >>
  /\ UNCHANGED << gameState, score, lives, accuracy, scoreRef, shotsHitRef, waveCountRef,
                  livesRef, shipRef, asteroidsRef, powerupsRef, width, height, frames,
                  intervals, timeouts, thrustSound, ticks, run >>

\* ------------------------------------------------------------ input
\* lines 552-584
handleKeyDown(code) ==
  /\ ~Hung
  /\ inputs < MaxInputs
  /\ inputs' = inputs + 1
  /\ keys' = keys \cup {code}
  /\ IF code = "Space" /\ gameState = PLAYING /\ ~shipRef.destroyed
     THEN LET hasSpread == spreadAmmoRef > 0
          IN  /\ bulletsRef' = FireBullets(bulletsRef, shipRef, hasSpread)
              /\ spreadAmmoRef' = IF hasSpread THEN spreadAmmoRef - 1 ELSE spreadAmmoRef
              /\ ammo' = IF hasSpread THEN spreadAmmoRef - 1 ELSE ammo
              /\ shotsFiredRef' = shotsFiredRef + 1
              /\ ev' = [NoEvent("keydown") EXCEPT !.key = code,
                          !.fired = Len(Angles(hasSpread))]
     ELSE /\ ev' = [NoEvent("keydown") EXCEPT !.key = code]
          /\ UNCHANGED << bulletsRef, spreadAmmoRef, ammo, shotsFiredRef >>
  /\ UNCHANGED << gameState, score, lives, accuracy, scoreRef, shotsHitRef, waveCountRef,
                  livesRef, shipRef, asteroidsRef, powerupsRef, width, height, frames,
                  intervals, timeouts, thrustSound, ticks, run >>

KeyDown == \E code \in KeyCodes : handleKeyDown(code)

\* lines 586-588
handleKeyUp(code) ==
  /\ ~Hung
  /\ inputs < MaxInputs
  /\ code \in keys
  /\ inputs' = inputs + 1
  /\ keys' = keys \ {code}
  /\ ev' = [NoEvent("keyup") EXCEPT !.key = code]
  /\ UNCHANGED << gameState, score, lives, accuracy, ammo, scoreRef, shotsFiredRef,
                  shotsHitRef, waveCountRef, spreadAmmoRef, livesRef, shipRef,
                  asteroidsRef, bulletsRef, powerupsRef, width, height, frames,
                  intervals, timeouts, thrustSound, ticks, run >>

KeyUp == \E code \in KeyCodes : handleKeyUp(code)

\* ------------------------------------------------------------ timers
\* line 330
Accuracy(hits, shots) == IF shots > 0 THEN RoundPercent(hits, shots) ELSE 0

\* A callback is stale when the run that scheduled it is over: the game state
\* is no longer that of a run (playing or paused), or a fresh game has begun.
Stale(t) == gameState \notin {PLAYING, PAUSED} \/ t.run # run

\* lines 329-334 and 336: a pending setTimeout callback runs
Timeout ==
  \E i \in 1..Len(timeouts) :
    /\ ~Hung
    /\ timeouts' = RemoveAt(timeouts, i)
    /\ IF timeouts[i].kind = "gameOver"
       THEN /\ handleSetGameState(GAME_OVER, Accuracy(shotsHitRef, shotsFiredRef), 1,
                                  IF Stale(timeouts[i]) THEN "staleGameOver" ELSE "gameOver")
            /\ UNCHANGED << scoreRef, shotsFiredRef, shotsHitRef, livesRef, bulletsRef,
                            keys, width, height, ticks, inputs >>
       ELSE /\ shipRef' = resetShip(shipRef, width, height)
            /\ ev' = NoEvent(IF Stale(timeouts[i]) THEN "staleRespawn" ELSE "respawn")
            /\ UNCHANGED << gameState, score, lives, accuracy, ammo, scoreRef,
                            shotsFiredRef, shotsHitRef, waveCountRef, spreadAmmoRef,
                            livesRef, asteroidsRef, bulletsRef, powerupsRef, keys, width,
                            height, frames, intervals, thrustSound, ticks, inputs, run >>

\* lines 386-390: the 45 s interval fires
Interval ==
  /\ ~Hung
  /\ intervals > 0
  /\ inputs < MaxInputs
  /\ inputs' = inputs + 1
  /\ \E seed \in Seeds :
       /\ powerupsRef' = IF Len(powerupsRef) = 0
                         THEN spawnPowerup("spread", width, height, powerupsRef, seed, 0)
                         ELSE powerupsRef
       /\ ev' = [NoEvent("interval") EXCEPT !.spawned = Len(powerupsRef') - Len(powerupsRef)]
  /\ UNCHANGED << gameState, score, lives, accuracy, ammo, scoreRef, shotsFiredRef,
                  shotsHitRef, waveCountRef, spreadAmmoRef, livesRef, shipRef,
                  asteroidsRef, bulletsRef, keys, width, height, frames, intervals,
                  timeouts, thrustSound, ticks, run >>

\* ------------------------------------------------------------ initial states
\* lines 32-61 and App's useState: the state after construction, the effects
\* of the first render run (canvas sized, sound off).
Boot ==
  [gameState |-> MENU, score |-> 0, lives |-> INITIAL_LIVES, accuracy |-> 0, ammo |-> 0,
   scoreRef |-> 0, shotsFiredRef |-> 0, shotsHitRef |-> 0, waveCountRef |-> 0,
   spreadAmmoRef |-> 0, livesRef |-> INITIAL_LIVES,
   shipRef |-> [x |-> 0, y |-> 0, vx |-> 0, vy |-> 0, rot |-> 0, radius |-> Px(SHIP_SIZE),
                thrusting |-> FALSE, invulnerable |-> INITIAL_INVULNERABLE,
                destroyed |-> FALSE],
   asteroidsRef |-> << >>, bulletsRef |-> << >>, powerupsRef |-> << >>, keys |-> {},
   width |-> Px(VIEW_WIDTH), height |-> Px(VIEW_HEIGHT),
   frames |-> 0, intervals |-> 0, timeouts |-> << >>, thrustSound |-> FALSE, run |-> 0]

\* the same in a small window
SmallBoot == [Boot EXCEPT !.width = Px(SMALL_VIEW), !.height = Px(SMALL_VIEW)]

\* States of the first run, some way into it.  The ship has been respawned
\* at the centre and its invulnerability has run out; the counters are those
\* of a run that scored 790 (Early) or 5010 (Late).
CX == Px(VIEW_WIDTH) \div 2
CY == Px(VIEW_HEIGHT) \div 2

Early ==
  [Boot EXCEPT !.gameState = PLAYING, !.score = 790, !.scoreRef = 790,
               !.shotsFiredRef = 26, !.shotsHitRef = 20, !.waveCountRef = 2,
               !.frames = 1, !.intervals = 1, !.run = 1,
               !.shipRef = [resetShip(Boot.shipRef, Px(VIEW_WIDTH), Px(VIEW_HEIGHT))
                              EXCEPT !.invulnerable = 0]]

Late ==
  [Early EXCEPT !.score = 5010, !.scoreRef = 5010, !.shotsFiredRef = 90,
                !.shotsHitRef = 80, !.waveCountRef = 15]

\* a bullet fired straight up from the centre, n frames ago
Shot(n) ==
  LET b == NewBullet(Early.shipRef, 0)
  IN  [b EXCEPT !.x = b.x + n * b.vx, !.y = b.y + n * b.vy]

FarRock == NewAsteroid(Px(10), Px(10), 100, -50, 1)
Rock(sizeClass) == NewAsteroid(CX, Px(64), 50, 0, sizeClass)
Debris == NewAsteroid(CX, Px(197), 0, -200, 2)
Wreck == NewAsteroid(CX, Px(155), 0, -200, 2)

Pickup(kind, x, y, lifeTime) ==
  [x |-> x, y |-> y, radius |-> Px(POWERUP_RADIUS), kind |-> kind, lifeTime |-> lifeTime]

\* a bullet about to strike a rock of each size class
HitScenes ==
  { [Early EXCEPT !.asteroidsRef = << FarRock, Rock(k) >>, !.bulletsRef = << Shot(9) >>] :
      k \in 1..3 }
  \cup
  { [Late EXCEPT !.asteroidsRef = << FarRock, Rock(k) >>, !.bulletsRef = << Shot(9) >>] :
      k \in 1..4 }

\* a bullet about to graze a small rock: after the next frame their centres
\* are 19 pixels apart, the rock's radius is 18 and the bullet's is 2
GrazeScenes ==
  { [Early EXCEPT !.asteroidsRef = << FarRock, NewAsteroid(CX, Px(61), 50, 0, 1) >>,
                  !.bulletsRef = << Shot(9) >>] }

\* a bullet about to strike the last rock of a wave
LastRockScenes ==
  { [Early EXCEPT !.asteroidsRef = << Rock(1) >>, !.bulletsRef = << Shot(9) >>,
                  !.shotsHitRef = 24, !.shotsFiredRef = 30,
                  !.waveCountRef = wave] : wave \in {2, 4} }
  \cup
  { [Late EXCEPT !.asteroidsRef = << Rock(1) >>, !.bulletsRef = << Shot(9) >>] }

\* the ship adrift in the top left corner of the canvas, while a bullet it
\* fired earlier is about to strike the last rock of the wave
CornerScenes ==
  { [Early EXCEPT !.asteroidsRef = << NewAsteroid(Px(30), Px(195), 50, 0, 1) >>,
                  !.bulletsRef = << [Shot(0) EXCEPT !.x = Px(30), !.y = Px(210)] >>,
                  !.shipRef.x = Px(15), !.shipRef.y = Px(15),
                  !.shipRef.vx = -10, !.shipRef.vy = -10] }

\* a fragment drifting onto the ship, after 20 hits in 26 shots or 23 in 40
CrashScenes ==
  { [Early EXCEPT !.asteroidsRef = << FarRock, Debris >>,
                  !.shipRef.invulnerable = inv,
                  !.livesRef = la[1], !.lives = la[1],
                  !.spreadAmmoRef = la[2], !.ammo = la[2],
                  !.shotsHitRef = hs[1], !.shotsFiredRef = hs[2]] :
      inv \in {0, 2}, la \in { << 1, 0 >>, << 3, 7 >> },
      hs \in { << 20, 26 >>, << 23, 40 >> } }

\* two fragments drifting onto the ship from below and from the right
PileUpScenes ==
  { [Early EXCEPT !.asteroidsRef = << FarRock, Debris,
                                      NewAsteroid(CX + Px(40), CY, -100, 0, 2) >>,
                  !.livesRef = 3, !.lives = 3] }

\* a player on the last life who has not fired yet: respawned under a large
\* rock, the spread powerup collected since, the invulnerability about to end
VolleyScenes ==
  { [Early EXCEPT !.score = 0, !.scoreRef = 0, !.shotsFiredRef = 0, !.shotsHitRef = 0,
                  !.waveCountRef = 0,
                  !.asteroidsRef = << FarRock, NewAsteroid(CX, CY - Px(10), 0, 50, 3) >>,
                  !.shipRef.invulnerable = 2,
                  !.spreadAmmoRef = SPREAD_AMMO_COUNT, !.ammo = SPREAD_AMMO_COUNT,
                  !.livesRef = 1, !.lives = 1] }

\* the same with a spread powerup that has just appeared on the ship
ArmedCrashScenes ==
  { [Early EXCEPT !.asteroidsRef = << FarRock, Debris >>,
                  !.spreadAmmoRef = n, !.ammo = n,
                  !.powerupsRef = << Pickup("spread", CX + Px(10), CY, POWERUP_LIFETIME) >>] :
      n \in {0, 7} }

\* the same for a player who never fired
IdleCrashScenes ==
  { [Early EXCEPT !.score = 0, !.scoreRef = 0, !.shotsFiredRef = 0, !.shotsHitRef = 0,
                  !.waveCountRef = 0,
                  !.asteroidsRef = << FarRock, Debris >>,
                  !.livesRef = 1, !.lives = 1] }

\* the ship coasting onto powerups
Coasting(base) ==
  [base EXCEPT !.asteroidsRef = << FarRock >>,
              !.shipRef.y = Px(200), !.shipRef.vy = -500]

PickupScenes ==
  { [Coasting(Late) EXCEPT !.powerupsRef = << Pickup("life", CX, Px(166), 120) >>,
                           !.livesRef = n, !.lives = n] : n \in {4, 5} }
  \cup
  { [Coasting(Early) EXCEPT !.powerupsRef = << Pickup("spread", CX, Px(166), 120) >>,
                            !.spreadAmmoRef = n, !.ammo = n] : n \in {0, 7} }
  \cup
  { [Coasting(Late) EXCEPT !.powerupsRef = << Pickup("spread", CX, Px(166), 120),
                                              Pickup("life", CX + Px(5), Px(170), 300) >>,
                           !.livesRef = 4, !.lives = 4,
                           !.spreadAmmoRef = 7, !.ammo = 7] }

\* two powerups about to expire, out of the ship's reach: the spread powerup
\* came first, the life powerup of the wave one tick later
ExpiryScenes ==
  { [Late EXCEPT !.asteroidsRef = << FarRock >>,
                 !.powerupsRef = << Pickup("spread", Px(40), Px(250), 1),
                                    Pickup("life", Px(250), Px(250), 2) >>] }

\* rocks, bullets and the ship at the borders of the canvas
EdgeScenes ==
  { [Early EXCEPT !.asteroidsRef = << NewAsteroid(Px(299), Px(100), 100, 0, 1),
                                      NewAsteroid(50, Px(20), -100, 0, 1),
                                      NewAsteroid(Px(40), Px(299) + 50, 0, 100, 2) >>,
                  !.bulletsRef = << Shot(20), Shot(21) >>,
                  !.shipRef.x = Px(297), !.shipRef.vx = 300] }

\* the ship destroyed while thrusting, turned and off the centre, its deferred
\* callback pending: the state the destroying tick leaves, the engine sound on
DeadScenes ==
  { [Early EXCEPT !.asteroidsRef = << FarRock, Wreck >>,
                  !.shipRef.destroyed = TRUE,
                  !.shipRef.x = CX + Px(12), !.shipRef.y = CY - Px(3),
                  !.shipRef.vx = 130, !.shipRef.vy = -40, !.shipRef.rot = 1,
                  !.shipRef.thrusting = TRUE, !.thrustSound = TRUE,
                  !.livesRef = n, !.lives = n,
                  !.timeouts = << Deferred(n, Early.run) >>] :
      n \in {0, 2} }

\* the game-over screen of the first run
OverScenes ==
  { [Early EXCEPT !.gameState = GAME_OVER, !.frames = 0, !.intervals = 0,
                  !.asteroidsRef = << FarRock, Wreck >>,
                  !.shipRef.destroyed = TRUE,
                  !.livesRef = 0, !.lives = 0,
                  !.accuracy = Accuracy(Early.shotsHitRef, Early.shotsFiredRef)] }

Scenes ==
  {Boot, SmallBoot} \cup HitScenes \cup LastRockScenes \cup CrashScenes \cup ArmedCrashScenes \cup IdleCrashScenes
         \cup PickupScenes \cup ExpiryScenes \cup GrazeScenes \cup CornerScenes
         \cup PileUpScenes \cup VolleyScenes
         \cup EdgeScenes \cup DeadScenes \cup OverScenes

Init ==
  \E s \in Scenes :
    /\ gameState = s.gameState
    /\ score = s.score
    /\ lives = s.lives
    /\ accuracy = s.accuracy
    /\ ammo = s.ammo
    /\ scoreRef = s.scoreRef
    /\ shotsFiredRef = s.shotsFiredRef
    /\ shotsHitRef = s.shotsHitRef
    /\ waveCountRef = s.waveCountRef
    /\ spreadAmmoRef = s.spreadAmmoRef
    /\ livesRef = s.livesRef
    /\ shipRef = s.shipRef
    /\ asteroidsRef = s.asteroidsRef
    /\ bulletsRef = s.bulletsRef
    /\ powerupsRef = s.powerupsRef
    /\ keys = s.keys
    /\ width = s.width
    /\ height = s.height
    /\ frames = s.frames
    /\ intervals = s.intervals
    /\ timeouts = s.timeouts
    /\ thrustSound = s.thrustSound
    /\ run = s.run
    /\ ticks = 0
    /\ inputs = 0
    /\ ev = NoEvent("init")

Next == Tick \/ KeyDown \/ KeyUp \/ Timeout \/ Interval \/ StartGame \/ Reboot

Spec == Init /\ [][Next]_vars

\* setTimeout callbacks are run by the browser once their delay has passed
SpecFair == Spec /\ WF_vars(Timeout)

\* Both the animation frames and the timers keep firing: requestAnimationFrame
\* calls loop back while a frame is pending, as setTimeout does its callback.
\* (Weak fairness of Tick, written with the guard of Tick for its enabling
\* condition and the tick counter for its occurrence.)
SpecLive ==
  /\ Spec
  /\ WF_vars(Timeout)
  /\ \/ []<>~(frames > 0 /\ ticks < MaxTicks)
     \/ []<><<ticks' = ticks + 1>>_vars

\* The engine under any host: the game state is a prop, and a host may set it
\* to any value at any time through handleSetGameState (pause, resume, exit).
HostSet ==
  /\ ~Hung
  /\ inputs < MaxInputs
  /\ inputs' = inputs + 1
  /\ \E newState \in GameState, seed \in Seeds :
       handleSetGameState(newState, accuracy, seed, "host")
  /\ UNCHANGED << scoreRef, shotsFiredRef, shotsHitRef, livesRef, bulletsRef, keys,
                  width, height, timeouts, ticks >>

SpecHost == Init /\ [][Next \/ HostSet]_vars

\* ------------------------------------------------------------ properties
Centre(ship) == ship.x = width \div 2 /\ ship.y = height \div 2

Pending(kind) == Cardinality({i \in 1..Len(timeouts) : timeouts[i].kind = kind})
PendingNext(kind) == Cardinality({i \in 1..Len(timeouts') : timeouts'[i].kind = kind})

GameOverFired == ev.op \in {"gameOver", "staleGameOver"}

\* C1: entering PLAYING for a fresh game (the Start button of the menu, also
\* after a game-over) resets the run: wave counter, spread ammo, powerups, a
\* fresh initial wave, the ship at the centre, alive and invulnerable, the shot
\* and hit counters, the score and the lives.
C1_FreshStartResets ==
  ev.op = "start" =>
    /\ waveCountRef = 0
    /\ spreadAmmoRef = 0
    /\ powerupsRef = << >>
    /\ ev.reset /\ Len(asteroidsRef) = INITIAL_WAVE
    /\ Centre(shipRef) /\ ~shipRef.destroyed
    /\ shipRef.invulnerable = RESPAWN_INVULNERABLE
    /\ shotsFiredRef = 0 /\ shotsHitRef = 0
    /\ scoreRef = 0
    /\ livesRef = INITIAL_LIVES

\* acc is 100 * hits / shots rounded to the nearest integer, halves up
C2_IsRounded(acc, hits, shots) ==
  IF shots = 0 THEN acc = 0
  ELSE 2 * shots * acc <= 200 * hits + shots /\ 200 * hits + shots < 2 * shots * (acc + 1)

\* one step of the game-over protocol
C2_GameOverStep ==
  /\ (ev'.op = "tick" /\ ev'.died /\ livesRef' <= 0)
       => timeouts' = Append(timeouts, [kind |-> "gameOver", run |-> run, delay |-> 1000])
  /\ ~(ev'.op = "tick" /\ ev'.died /\ livesRef' <= 0)
       => PendingNext("gameOver") <= Pending("gameOver")
  /\ GameOverFired'
       => /\ PendingNext("gameOver") = Pending("gameOver") - 1
          /\ gameState' = GAME_OVER
          /\ C2_IsRounded(accuracy', shotsHitRef, shotsFiredRef)
  /\ (gameState' = GAME_OVER /\ gameState # GAME_OVER) => GameOverFired'

\* C2: a destruction that takes the last life schedules exactly one game-over
\* callback and no other step schedules one; when the callback runs it reports
\* round(100 * hits / shots) (0 without shots) and requests GAME_OVER, which
\* nothing else requests; and a scheduled callback does run.
C2_GameOverOnce ==
  /\ [](Pending("gameOver") <= 1)
  /\ [][C2_GameOverStep]_vars
  /\ (Pending("gameOver") = 1) ~> GameOverFired

\* the last life lost in this run after 23 hits in 40 shots, game over reported
C2_Witness ==
  /\ ev.op = "gameOver" /\ gameState = GAME_OVER /\ ticks > 0
  /\ livesRef = 0 /\ shotsHitRef = 23 /\ shotsFiredRef = 40 /\ timeouts = << >>
  /\ asteroidsRef[2].y = Px(195)

\* C3: a respawn or game-over callback that runs after its run has ended (the
\* game state left the run, or a fresh game began) changes nothing: not the
\* ship, not the accuracy, not the game state.
C3_StaleCallbackNoOp ==
  [][ev'.op \in {"staleRespawn", "staleGameOver"}
       => UNCHANGED << shipRef, accuracy, gameState >>]_vars

C4_InsideHalfOpen(e) == 0 <= e.x /\ e.x < width /\ 0 <= e.y /\ e.y < height

\* C4: after every tick the ship and every asteroid lie in
\* [0, width) x [0, height).
C4_WrappedHalfOpen ==
  ev.op = "tick" =>
    /\ C4_InsideHalfOpen(shipRef)
    /\ \A i \in 1..Len(asteroidsRef) : C4_InsideHalfOpen(asteroidsRef[i])

\* C5: a bullet whose position leaves [0, width] x [0, height] is removed in
\* that tick: no bullet of the collection is ever outside the bounds.
C5_BulletsInside ==
  \A i \in 1..Len(bulletsRef) :
    /\ 0 <= bulletsRef[i].x /\ bulletsRef[i].x <= width
    /\ 0 <= bulletsRef[i].y /\ bulletsRef[i].y <= height

\* a tick removed a bullet that left the canvas and kept one that did not
C5_Witness ==
  ev.op = "tick" /\ ev.removed > 0 /\ Len(bulletsRef) > 0

\* a tick in which one bullet destroys one asteroid without clearing the wave
C6_FragmentStep ==
  (ev'.op = "tick" /\ Len(ev'.hits) = 1 /\ ev'.spawned = 0) =>
    LET h == ev'.hits[1]
        before == MoveAsteroids(asteroidsRef, width, height)
        Struck(j) == /\ before[j].sizeClass = h.sizeClass
                     /\ before[j].x = h.x /\ before[j].y = h.y
        Child(a) == a.sizeClass = h.sizeClass - 1 /\ a.x = h.x /\ a.y = h.y
    IN  \E j \in 1..Len(before) :
          /\ Struck(j)
          /\ LET rest == RemoveAt(before, j)
             IN  /\ SubSeq(asteroidsRef', 1, Len(rest)) = rest
                 /\ IF h.sizeClass > 1
                    THEN /\ Len(asteroidsRef') = Len(rest) + 2
                         /\ Child(asteroidsRef'[Len(rest) + 1])
                         /\ Child(asteroidsRef'[Len(rest) + 2])
                    ELSE Len(asteroidsRef') = Len(rest)

\* C6: a bullet that destroys an asteroid of size class k leaves the other
\* asteroids as they moved, removes the struck one and, for k > 1, appends
\* exactly two asteroids of size class k - 1 at its position; for k = 1 it
\* appends nothing.
C6_Fragmentation == [][C6_FragmentStep]_vars

\* a size class 3 rock was struck and two of size class 2 took its place
C6_Witness ==
  /\ ev.op = "tick" /\ Len(ev.hits) = 1 /\ ev.hits[1].sizeClass = 3
  /\ Len(asteroidsRef) = 3
  /\ asteroidsRef[2].sizeClass = 2 /\ asteroidsRef[3].sizeClass = 2

\* the award of each size class, 1 to 4
C7_Award == << 100, 50, 20, 15 >>

RECURSIVE C7_Total(_)
C7_Total(hits) ==
  IF hits = << >> THEN 0 ELSE C7_Award[Head(hits).sizeClass] + C7_Total(Tail(hits))

C7_ScoreStep ==
  ev'.op = "tick" =>
    /\ scoreRef' = scoreRef + C7_Total(ev'.hits)
    /\ ev'.hits # << >> => score' = scoreRef'

\* C7: destroying an asteroid adds 15, 20, 50 or 100 to the score for size
\* class 4, 3, 2 or 1, whatever the score was, and the new score is sent up.
C7_Scoring == [][C7_ScoreStep]_vars

\* a size class 4 rock was destroyed at score 5010
C7_Witness ==
  /\ ev.op = "tick" /\ Len(ev.hits) = 1 /\ ev.hits[1].sizeClass = 4
  /\ scoreRef = 5025 /\ score = 5025

C8_ShieldStep ==
  (ev'.op = "tick" /\ ev'.invulnerable > 0) =>
    /\ livesRef' >= livesRef
    /\ shipRef'.destroyed = shipRef.destroyed
    /\ timeouts' = timeouts

\* C8: a tick whose collision step finds the ship invulnerable neither takes a
\* life nor destroys the ship, whatever overlaps it.
C8_Invulnerable == [][C8_ShieldStep]_vars

\* an asteroid overlapped the invulnerable ship, which lives on
C8_Witness ==
  /\ ev.op = "tick" /\ ev.invulnerable > 0 /\ ev.overlap
  /\ ~shipRef.destroyed /\ ShipOverlaps(shipRef, asteroidsRef)

C9_Lives(picked) == Cardinality({i \in 1..Len(picked) : picked[i].kind = "life"})

C9_Min(a, b) == IF a < b THEN a ELSE b

C9_LifeStep ==
  (ev'.op = "tick" /\ C9_Lives(ev'.picked) > 0) =>
    /\ livesRef' = C9_Min(5, livesRef + C9_Lives(ev'.picked))
    /\ lives' = livesRef'
    /\ Len(powerupsRef') =
         Cardinality({i \in 1..Len(powerupsRef) : powerupsRef[i].lifeTime > 1})
           - Len(ev'.picked) + (IF ev'.lifeDrop THEN 1 ELSE 0)
    /\ ~ev'.lifeDrop =>
         \A i \in 1..Len(powerupsRef') :
           ~HypotLess(shipRef'.x - powerupsRef'[i].x, shipRef'.y - powerupsRef'[i].y,
                      Px(POWERUP_RADIUS + SHIP_SIZE))

\* C9: collecting life powerups never takes the lives above 5: each adds one
\* life below 5 and none at 5, and every powerup collected leaves the
\* collection.
C9_LifeCap == [][C9_LifeStep]_vars

\* a life powerup was collected at 5 lives: still 5, and the powerup is gone
C9_Witness ==
  /\ ev.op = "tick" /\ Len(ev.picked) = 1 /\ ev.picked[1].kind = "life"
  /\ ev.picked[1].lives = 5 /\ livesRef = 5 /\ powerupsRef = << >>

C10_SpreadStep ==
  (ev'.op = "tick" /\ \E i \in 1..Len(ev'.picked) : ev'.picked[i].kind = "spread") =>
    /\ spreadAmmoRef' = 50
    /\ ammo' = 50

\* C10: collecting a spread powerup sets the spread ammo to SPREAD_AMMO_COUNT
\* whatever it was: it replaces, it does not add.
C10_SpreadReplaces == [][C10_SpreadStep]_vars

\* a spread powerup was collected with 7 rounds left
C10_Witness ==
  /\ ev.op = "tick" /\ Len(ev.picked) = 1 /\ ev.picked[1].kind = "spread"
  /\ ev.picked[1].ammo = 7 /\ spreadAmmoRef = 50


\* C11: a tick in which an asteroid destroys the ship ends with the spread
\* ammo at 0, also when a spread powerup lies on the ship, and the ammo sent
\* up is 0.
C11_AmmoLostOnDeath ==
  [][(ev'.op = "tick" /\ ev'.died) => (spreadAmmoRef' = 0 /\ ammo' = 0)]_vars

\* the ship died while a spread powerup touched it
C11_Witness ==
  /\ ev.op = "tick" /\ ev.died /\ shipRef.destroyed
  /\ spreadAmmoRef = 0 /\ ammo = 0 /\ ticks = 1
  /\ \E i \in 1..Len(powerupsRef) :
       powerupsRef[i].kind = "spread" /\ ShipTouches(shipRef, powerupsRef[i])


\* bullet b leaves the ship at its heading plus off degrees
C12_FiredAt(b, off) ==
  /\ b.x = shipRef.x /\ b.y = shipRef.y
  /\ b.rot = shipRef.rot /\ b.off = off
  /\ b.vx = Quot(Cos(shipRef.rot, off) * 700, 1000)
  /\ b.vy = Quot(Sin(shipRef.rot, off) * 700, 1000)

C12_FireStep ==
  (ev'.op = "keydown" /\ ev'.key = "Space" /\ gameState = PLAYING /\ ~shipRef.destroyed) =>
    LET new == SubSeq(bulletsRef', Len(bulletsRef) + 1, Len(bulletsRef'))
    IN  /\ SubSeq(bulletsRef', 1, Len(bulletsRef)) = bulletsRef
        /\ IF spreadAmmoRef > 0
           THEN /\ Len(new) = 3
                /\ \A off \in {-25, 0, 25} :
                     Cardinality({i \in 1..3 : C12_FiredAt(new[i], off)}) = 1
                /\ spreadAmmoRef' = spreadAmmoRef - 1
           ELSE /\ Len(new) = 1
                /\ C12_FiredAt(new[1], 0)
                /\ spreadAmmoRef' = spreadAmmoRef

\* C12: a fire event while playing with an active ship adds exactly one
\* bullet at the ship's heading when the spread ammo is 0, and exactly three,
\* at the heading and 25 degrees to either side, when it is positive, and
\* then the spread ammo goes down by one.
C12_Fire == [][C12_FireStep]_vars

\* a fan of three was fired with 7 rounds left
C12_Witness ==
  /\ ev.op = "keydown" /\ ev.key = "Space" /\ ev.fired = 3
  /\ spreadAmmoRef = 6 /\ ammo = 6 /\ Len(bulletsRef) = 3
  /\ bulletsRef[2].off = -25 /\ bulletsRef[3].off = 25


\* the asteroids left after the hits of a tick: each hit removes one asteroid
\* and, above size class 1, adds two
RECURSIVE C13_Left(_, _)
C13_Left(n, hits) ==
  IF hits = << >> THEN n
  ELSE C13_Left(IF Head(hits).sizeClass > 1 THEN n + 1 ELSE n - 1, Tail(hits))

\* the life powerups that appeared in this tick (the older ones have aged)
C13_NewLives(powerups) ==
  Cardinality({i \in 1..Len(powerups) :
                 powerups[i].kind = "life" /\ powerups[i].lifeTime = 300})

C13_WaveStep ==
  (ev'.op = "tick" /\ C13_Left(Len(asteroidsRef), ev'.hits) = 0) =>
    /\ waveCountRef' = waveCountRef + 1
    /\ Len(asteroidsRef') = 5 + scoreRef' \div 800
    /\ C13_NewLives(powerupsRef') = IF waveCountRef' % 5 = 0 THEN 1 ELSE 0

\* C13: a tick that finds the asteroid collection empty at its wave step
\* adds exactly 1 to the wave counter, spawns exactly 5 + floor(score / 800)
\* asteroids, and spawns exactly one life powerup if the new wave counter is a
\* multiple of 5 and none otherwise.
C13_WaveClear == [][C13_WaveStep]_vars

\* the last rock of wave 4 was destroyed at score 790: wave 5, six rocks, a life
C13_Witness ==
  /\ ev.op = "tick" /\ Len(ev.hits) = 1 /\ scoreRef = 890
  /\ waveCountRef = 5 /\ Len(asteroidsRef) = 6
  /\ Len(powerupsRef) = 1 /\ powerupsRef[1].kind = "life"


\* what the loop works on
C14_World ==
  << shipRef, asteroidsRef, bulletsRef, powerupsRef, scoreRef, livesRef, waveCountRef >>

C14_LoopStep ==
  /\ ev'.op = "tick" => (gameState = PLAYING /\ gameState' = PLAYING /\ frames' = 1)
  /\ ev'.op = "idle" => (UNCHANGED C14_World /\ frames' = frames - 1)
  /\ (gameState # PLAYING /\ gameState' # PLAYING) => ev'.op \notin {"tick", "idle"}

\* C14: a tick runs, and requests the next frame, only while the game state is
\* PLAYING; in every other state no frame is pending, so no tick runs and the
\* loop changes neither the entities nor the score, lives or wave counter.
C14_LoopOnlyWhilePlaying ==
  /\ [](frames <= 1)
  /\ [](gameState # PLAYING => frames = 0)
  /\ [][C14_LoopStep]_vars

\* a run of which a tick ran has ended in GAME_OVER, and no frame is pending
C14_Witness ==
  /\ gameState = GAME_OVER /\ ev.op = "gameOver" /\ ev.from = PLAYING
  /\ ticks > 0 /\ frames = 0


\* C15: once play is active the world is never without hazards: the asteroid
\* collection is not empty at the end of a tick, nor at any other moment of
\* the PLAYING state in which the loop can run.
C15_NeverWithoutHazards ==
  (ev.op = "tick" \/ (gameState = PLAYING /\ ~Hung)) => Len(asteroidsRef) > 0

\* the last rock of wave 2 was destroyed and wave 3 is in the field
C15_Witness ==
  /\ ev.op = "tick" /\ Len(ev.hits) = 1 /\ ev.hits[1].sizeClass = 1
  /\ ev.spawned > 0 /\ waveCountRef = 3 /\ Len(asteroidsRef) = ev.spawned


C16_SpawnerStep ==
  ev'.op = "interval" =>
    /\ gameState = PLAYING
    /\ IF powerupsRef = << >>
       THEN /\ Len(powerupsRef') = 1
            /\ powerupsRef'[1].kind = "spread"
            /\ powerupsRef'[1].lifeTime = 300
       ELSE powerupsRef' = powerupsRef

\* C16: the periodic timer spawns a spread powerup only when it finds the
\* powerup collection empty, and it is set only while the game state is
\* PLAYING: once the state has left PLAYING no timer is left to fire.
C16_SpawnerOnlyWhilePlaying ==
  /\ [](intervals <= 1)
  /\ [](gameState # PLAYING => intervals = 0)
  /\ [][C16_SpawnerStep]_vars

\* the timer fired on an empty collection and a spread powerup appeared
C16_Witness ==
  /\ ev.op = "interval" /\ ev.spawned = 1 /\ gameState = PLAYING
  /\ Len(powerupsRef) = 1 /\ powerupsRef[1].kind = "spread"


C18_Lasting(q) == q.lifeTime > 1

\* a tick in which the ship collects nothing: the powerups with more than one
\* tick left stay, in order, one tick older; the others are gone; a powerup
\* that appears in the tick has its full lifetime
C18_AgeStep ==
  (ev'.op = "tick" /\ ev'.picked = << >>) =>
    LET kept == SelectSeq(powerupsRef, C18_Lasting)
    IN  /\ Len(powerupsRef') >= Len(kept)
        /\ \A i \in 1..Len(kept) :
             powerupsRef'[i] = [kept[i] EXCEPT !.lifeTime = kept[i].lifeTime - 1]
        /\ \A i \in (Len(kept) + 1)..Len(powerupsRef') : powerupsRef'[i].lifeTime = 300

\* C18: every tick takes exactly one from the lifetime of every powerup and
\* removes a powerup in the tick its lifetime reaches zero: a powerup in the
\* collection always has a lifetime in 1..POWERUP_LIFETIME, and one that is
\* not collected is gone POWERUP_LIFETIME ticks after it appeared.
C18_PowerupLifetime ==
  /\ [](\A i \in 1..Len(powerupsRef) :
          powerupsRef[i].lifeTime >= 1 /\ powerupsRef[i].lifeTime <= 300)
  /\ [][C18_AgeStep]_vars

\* one powerup has expired and the other has one tick left
C18_Witness ==
  /\ ev.op = "tick" /\ ev.picked = << >> /\ ticks = 1
  /\ Len(powerupsRef) = 1 /\ powerupsRef[1].kind = "life" /\ powerupsRef[1].lifeTime = 1


\* C19: every asteroid of the collection, spawned or split off, has a size
\* class in 1..4 and a collision radius of 18 pixels times its size class.
C19_AsteroidShape ==
  \A i \in 1..Len(asteroidsRef) :
    /\ asteroidsRef[i].sizeClass \in {1, 2, 3, 4}
    /\ asteroidsRef[i].radius = 18 * asteroidsRef[i].sizeClass * SCALE

\* a size class 2 rock was split into two of size class 1 and radius 18
C19_Witness ==
  /\ ev.op = "tick" /\ Len(ev.hits) = 1 /\ ev.hits[1].sizeClass = 2
  /\ Len(asteroidsRef) = 3
  /\ \A i \in {2, 3} : asteroidsRef[i].sizeClass = 1 /\ asteroidsRef[i].radius = 18 * SCALE


\* C20: a ship destroyed in the PLAYING state does not stay destroyed for
\* ever: it is respawned, or the game-over transition is requested.
C20_ShipComesBack ==
  (gameState = PLAYING /\ shipRef.destroyed)
    ~> (~shipRef.destroyed \/ GameOverFired \/ gameState = GAME_OVER)

\* the respawn callback has put the ship back into the run
C20_Witness ==
  /\ ev.op = "respawn" /\ gameState = PLAYING /\ ~shipRef.destroyed
  /\ shipRef.invulnerable = 180 /\ livesRef > 0 /\ timeouts = << >>


\* C21: the delay of a ship respawn is shorter than the delay of the game-over
\* signal: whenever a destruction schedules its deferred callback, a respawn
\* is due sooner than a game over would be.
C21_RespawnSooner ==
  (ev.op = "tick" /\ ev.died) =>
    \A i \in 1..Len(timeouts) :
      timeouts[i].kind = "respawn" => timeouts[i].delay < GAME_OVER_DELAY

\* a destruction with lives left has scheduled the respawn
C21_Witness ==
  /\ ev.op = "tick" /\ ev.died /\ livesRef > 0
  /\ Len(timeouts) = 1 /\ timeouts[1].kind = "respawn" /\ timeouts[1].delay = 2000


C22_RespawnStep ==
  ev'.op \in {"respawn", "staleRespawn"} =>
    /\ Centre(shipRef')
    /\ shipRef'.vx = 0 /\ shipRef'.vy = 0 /\ shipRef'.rot = 0
    /\ shipRef'.invulnerable = 180
    /\ ~shipRef'.destroyed
    /\ UNCHANGED << livesRef, lives, scoreRef, score, spreadAmmoRef, ammo,
                    asteroidsRef, bulletsRef, powerupsRef >>

\* C22: when the deferred respawn fires, the ship is put at the centre of the
\* world with zero velocity, the initial heading, a full invulnerability
\* counter and destroyed = false; lives, score, ammo and the collections of
\* asteroids, bullets and powerups are left as they were.
C22_Respawn == [][C22_RespawnStep]_vars

\* the respawn has fired, a tick after the scene began, for a ship that was
\* destroyed while moving off the centre
C22_Witness ==
  /\ ev.op = "respawn" /\ Centre(shipRef) /\ ~shipRef.destroyed
  /\ shipRef.invulnerable = 180 /\ livesRef = 2
  /\ Len(asteroidsRef) = 2 /\ ticks > 0


\* the circles of bullet b and asteroid a overlap: the distance between their
\* centres is less than the sum of their radii
C23_CirclesOverlap(b, a) == HypotLess(b.x - a.x, b.y - a.y, b.radius + a.radius)

C23_HitStep ==
  ev'.op = "tick" =>
    LET bullets == MoveBullets(bulletsRef, width, height)
        asteroids == MoveAsteroids(asteroidsRef, width, height)
    IN  (Len(ev'.hits) > 0) <=>
          \E i \in 1..Len(bullets), j \in 1..Len(asteroids) :
            C23_CirclesOverlap(bullets[i], asteroids[j])

\* C23: a bullet and an asteroid register a hit in the bullet-vs-asteroid
\* step iff the distance between their centres is less than the sum of the
\* bullet's radius and the asteroid's radius: a tick registers a hit exactly
\* when some bullet and some asteroid, once moved, are that close.
C23_CircleOverlapHits == [][C23_HitStep]_vars

\* a tick has left a bullet closer to a rock than the sum of their radii,
\* and no hit was registered
C23_Witness ==
  /\ ev.op = "tick" /\ ev.hits = << >> /\ Len(bulletsRef) = 1
  /\ \E j \in 1..Len(asteroidsRef) :
        /\ C23_CirclesOverlap(bulletsRef[1], asteroidsRef[j])
        /\ ~BulletHits(bulletsRef[1], asteroidsRef[j])


C24_RepeatStep ==
  (ev'.op = "keydown" /\ ev'.key = "Space" /\ "Space" \in keys) =>
    UNCHANGED << bulletsRef, shotsFiredRef, spreadAmmoRef >>

\* C24: the fire trigger is edge-triggered: a Space keydown delivered while
\* Space is already recorded as held (no keyup in between) creates no bullet
\* and changes neither the shot counter nor the spread ammo.
C24_EdgeTriggered == [][C24_RepeatStep]_vars

\* two Space keydown events in a row, no keyup between them, have fired one
\* bullet each
C24_Witness ==
  /\ ev.op = "keydown" /\ ev.key = "Space" /\ ev.fired = 1
  /\ inputs = 2 /\ ticks = 0 /\ keys = {"Space"}
  /\ shotsFiredRef = 28 /\ Len(bulletsRef) = 2


C25_SpawnStep ==
  (ev'.op \in {"tick", "start", "host"} /\ ev'.spawned > 0) =>
    \A j \in 1..Len(asteroidsRef') : ~ShipHits(shipRef', asteroidsRef'[j])

\* C25: no asteroid created by spawnAsteroids, in the initial wave or in any
\* later one, is in collision range of the ship at the moment it is spawned,
\* wherever the ship is.
C25_SpawnClearOfShip == [][C25_SpawnStep]_vars

\* the tick that cleared the wave has spawned an asteroid on the ship
C25_Witness ==
  /\ ev.op = "tick" /\ Len(ev.hits) = 1 /\ ev.spawned = Len(asteroidsRef)
  /\ ~shipRef.destroyed /\ shipRef.invulnerable = 0
  /\ \E j \in 1..Len(asteroidsRef) : ShipHits(shipRef, asteroidsRef[j])


\* the hits of a tick that struck an asteroid which splits
C26_Splits(hits) == Cardinality({i \in 1..Len(hits) : hits[i].sizeClass > 1})

C26_BulletStep ==
  ev'.op = "tick" =>
    LET moved == MoveBullets(bulletsRef, width, height)
        n == Len(ev'.hits)
    IN  /\ n <= Len(moved)
        /\ shotsHitRef' = shotsHitRef + n
        /\ Len(bulletsRef') = Len(moved) - n
        /\ ev'.spawned = 0 =>
              Len(asteroidsRef') = Len(asteroidsRef) - n + FRAGMENTS * C26_Splits(ev'.hits)

\* C26: in one tick each bullet destroys at most one asteroid: on its first
\* overlap the struck asteroid and the bullet are both removed, the hit
\* counter goes up by exactly one, and the bullet is tested against no
\* further asteroid, the fragments it has just created included.
C26_OneAsteroidPerBullet == [][C26_BulletStep]_vars

\* one bullet has struck a large rock: the bullet is gone, and both fragments,
\* created where the bullet was, are still there
C26_Witness ==
  /\ ev.op = "tick" /\ Len(ev.hits) = 1 /\ ev.hits[1].sizeClass = 3
  /\ bulletsRef = << >> /\ Len(asteroidsRef) = 3
  /\ \A j \in {2, 3} :
        /\ asteroidsRef[j].sizeClass = 2
        /\ asteroidsRef[j].x = ev.hits[1].x /\ asteroidsRef[j].y = ev.hits[1].y
        /\ HypotLess(0, asteroidsRef[j].y - (Shot(10).y), asteroidsRef[j].radius)


C27_ShipStep ==
  ev'.op = "tick" =>
    /\ livesRef' >= livesRef - 1
    /\ ev'.died =>
          /\ livesRef' = livesRef - 1 /\ lives' = livesRef'
          /\ Len(timeouts') = Len(timeouts) + 1
          /\ (ev'.hits = << >>) => asteroidsRef' = MoveAsteroids(asteroidsRef, width, height)

\* C27: in one tick the ship-vs-asteroid step processes at most one
\* collision: the lives go down by at most one per tick however many
\* asteroids overlap the ship, and a ship collision removes or alters no
\* asteroid.
C27_OneCollisionPerTick == [][C27_ShipStep]_vars

\* a tick has destroyed the ship under two asteroids: one life is gone, both
\* asteroids are still there
C27_Witness ==
  /\ ev.op = "tick" /\ ev.died /\ ev.hits = << >> /\ livesRef = 2 /\ lives = 2
  /\ Len(timeouts) = 1 /\ Len(asteroidsRef) = 3
  /\ \A j \in {2, 3} : ShipHits(shipRef, asteroidsRef[j])


C28_DestroyedStep ==
  (ev'.op = "tick" /\ shipRef.destroyed) =>
    /\ shipRef'.x = shipRef.x /\ shipRef'.y = shipRef.y
    /\ shipRef'.vx = shipRef.vx /\ shipRef'.vy = shipRef.vy
    /\ shipRef'.rot = shipRef.rot
    /\ shipRef'.invulnerable = shipRef.invulnerable
    /\ ~thrustSound'

\* C28: while the ship is destroyed, a tick leaves the ship's position,
\* velocity, rotation and invulnerability counter unchanged whatever keys
\* are held, and thrust-off is signalled to the audio collaborator.
C28_DestroyedShipInert == [][C28_DestroyedStep]_vars

\* a tick has run with the ship destroyed and the thrust key held: the ship
\* is where it was destroyed, with the velocity and heading it had, and the
\* engine sound is off
C28_Witness ==
  /\ ev.op = "tick" /\ shipRef.destroyed /\ "ArrowUp" \in keys
  /\ shipRef.x = CX + Px(12) /\ shipRef.y = CY - Px(3)
  /\ shipRef.vx = 130 /\ shipRef.vy = -40 /\ shipRef.rot = 1
  /\ ~thrustSound


C29_SkippedStep ==
  (ev'.op = "tick" /\ shipRef'.destroyed) =>
    LET aged == AgePowerups(powerupsRef)
    IN  /\ ev'.picked = << >>
        /\ Len(powerupsRef') >= Len(aged)
        /\ SubSeq(powerupsRef', 1, Len(aged)) = aged
        /\ livesRef' = IF ev'.died THEN livesRef - 1 ELSE livesRef
        /\ spreadAmmoRef' = IF ev'.died THEN 0 ELSE spreadAmmoRef

\* C29: while the ship is destroyed no powerup is collected: the
\* ship-vs-powerup step is skipped in every tick where the ship is destroyed,
\* the tick in which an asteroid destroyed it included, so pickups change
\* neither the lives nor the spread ammo and powerups leave the collection
\* only by expiry.
C29_NoPickupWhileDestroyed == [][C29_SkippedStep]_vars

\* the ship was destroyed with a powerup on it, and a further tick has passed:
\* the powerup is still there, one tick older, nothing was picked up
C29_Witness ==
  /\ ev.op = "tick" /\ shipRef.destroyed /\ ~ev.died /\ ev.picked = << >>
  /\ ticks = 2 /\ spreadAmmoRef = 0 /\ livesRef = 2
  /\ Len(powerupsRef) = 1 /\ powerupsRef[1].kind = "spread"
  /\ powerupsRef[1].lifeTime = 298 /\ ShipTouches(shipRef, powerupsRef[1])


\* C30: in every reachable state the lives counter is in 0..5: it never
\* becomes negative and never exceeds the cap, across any sequence of ticks,
\* pickups, deaths, game overs and restarts.  (Both the engine's counter and
\* the one shown by the overlay.)
C30_LivesInRange == livesRef \in 0..5 /\ lives \in 0..5

\* a second run, started after a game over, has ticked with an asteroid on
\* the wreck: the engine's counter is still 0
C30_Witness ==
  /\ ev.op = "tick" /\ gameState = PLAYING /\ run = 2
  /\ livesRef = 0 /\ lives = 3 /\ shipRef.destroyed
  /\ ShipOverlaps(shipRef, asteroidsRef)


\* C31: the hit counter never exceeds the shot counter, so the accuracy
\* reported at game over is an integer percent in 0..100, spread shots (three
\* bullets per fire event) included.
C31_AccuracyInRange ==
  /\ shotsHitRef <= shotsFiredRef
  /\ accuracy \in 0..100

\* the game is over and the accuracy reported is above 100
C31_Witness ==
  /\ gameState = GAME_OVER /\ ev.op = "gameOver"
  /\ shotsFiredRef = 1 /\ shotsHitRef = 3 /\ accuracy = 300


\* C32: whenever the game state is playing, the score and the lives held by
\* the host (the last values it received or set) equal the engine's own score
\* and lives counters, in every run, those started after a game over included.
C32_HudMatchesEngine ==
  gameState = PLAYING => (score = scoreRef /\ lives = livesRef)

\* a run started after a game over: the host shows 0 points and 3 lives, the
\* engine still holds the 790 points and 0 lives of the run before
C32_Witness ==
  /\ gameState = PLAYING /\ ev.op = "start" /\ ev.from = MENU /\ run = 2
  /\ score = 0 /\ scoreRef = 790 /\ lives = 3 /\ livesRef = 0


\* C33: spawnAsteroids terminates for every count >= 0 and every positive
\* width and height of the viewport: the safe-zone retry loop always finds a
\* position outside the zone, so no handler that spawns is left hanging.
C33_SpawnTerminates ==
  (width > 0 /\ height > 0) => ~Hung

\* the start of a game in a 200 x 200 window: the state is PLAYING, the
\* initial spawn has not returned, no asteroid exists and no frame is pending
C33_Witness ==
  /\ Hung /\ gameState = PLAYING /\ width = 200 * SCALE /\ height = 200 * SCALE
  /\ asteroidsRef = << >> /\ frames = 0
  /\ ~SafeSpotExists(width, height)


\* C34: at most one animation-frame callback of the tick loop is pending at
\* any time, across every sequence of game-state changes, so the world never
\* advances more than once per animation frame.
C34_OneFramePending == frames \in {0, 1}

\* a run has ended, the game was rebooted and started again, and the loop of
\* the second run has ticked: one frame is pending
C34_Witness ==
  /\ gameState = PLAYING /\ run = 2 /\ ev.op = "tick" /\ ticks > 0
  /\ frames = 1


\* C35: at most one deferred callback (respawn or game over) is pending at
\* any time, and one is pending only while the ship is destroyed: each
\* destruction of the ship schedules exactly one of the two, and no further
\* destruction can occur before it fires.
C35_OneDeferredPending ==
  /\ Len(timeouts) <= 1
  /\ Len(timeouts) = 1 => shipRef.destroyed
  /\ (ev.op = "tick" /\ ev.died) => Len(timeouts) = 1

\* the last life was taken, a further tick has run with the asteroid still on
\* the wreck: the game-over callback is the only one pending
C35_Witness ==
  /\ ev.op = "tick" /\ ~ev.died /\ ticks = 2 /\ shipRef.destroyed /\ livesRef = 0
  /\ ShipOverlaps(shipRef, asteroidsRef)
  /\ Len(timeouts) = 1 /\ timeouts[1].kind = "gameOver"


\* C36: immediately after the bullet-vs-asteroid step of a tick, no surviving
\* bullet lies within the hit radius of any asteroid of the collection,
\* original or freshly created fragment: the removals and insertions made
\* during the scan cause no overlapping pair to be skipped.  (The later steps
\* of the tick leave both collections alone unless a new wave is spawned.)
C36_NoOverlapLeft ==
  (ev.op = "tick" /\ ev.spawned = 0) =>
    \A i \in 1..Len(bulletsRef), j \in 1..Len(asteroidsRef) :
      ~BulletHits(bulletsRef[i], asteroidsRef[j])

\* one bullet has split a rock while a second bullet, fired later, flew on:
\* the survivor, the two fragments and the far rock are in the collections
C36_Witness ==
  /\ ev.op = "tick" /\ Len(ev.hits) = 1 /\ ev.hits[1].sizeClass > 1 /\ ev.spawned = 0
  /\ Len(bulletsRef) = 1 /\ Len(asteroidsRef) = 3
  /\ asteroidsRef[2].x = ev.hits[1].x /\ asteroidsRef[3].x = ev.hits[1].x


C37_IgnoredStep ==
  (ev'.op = "keydown" /\ ev'.key = "Space" /\ (gameState # PLAYING \/ shipRef.destroyed)) =>
    /\ UNCHANGED << bulletsRef, shotsFiredRef, spreadAmmoRef, ammo >>
    /\ ev'.fired = 0

\* C37: a fire event received while the game state is not playing, or while
\* the ship is destroyed, creates no bullet and leaves the shot counter and
\* the spread ammo unchanged.
C37_FireIgnored == [][C37_IgnoredStep]_vars

\* Space was pressed in a PLAYING run while the ship was destroyed: no bullet,
\* the shot counter as it was
C37_Witness ==
  /\ ev.op = "keydown" /\ ev.key = "Space" /\ ev.fired = 0
  /\ gameState = PLAYING /\ shipRef.destroyed /\ Len(timeouts) = 1
  /\ bulletsRef = << >> /\ shotsFiredRef = 26 /\ "Space" \in keys

=============================================================================
